---- MODULE Spec2Model ----
(***************************************************************************)
(* Model of the resilient request client of simple-discordbot:             *)
(*   CircuitBreaker (src/src/utils/CircuitBreaker.ts) and MainApi, in the  *)
(*   revision that takes nonRetryableCodes (src/unnamed/part_000): request *)
(*   queue, rate-limit window, dispatch/reset timers, retry loop, dispose. *)
(*   Also CommandList (src/src/model/SimpleDiscordModels.ts) and the       *)
(*   customId parsing of SimpleDiscordBot (src/unnamed/part_006).          *)
(*                                                                         *)
(* Specifications:                                                         *)
(*   SpecCB   : the breaker alone, driven by arbitrary interleavings of    *)
(*              its public methods and of the passage of time (500 ms      *)
(*              grain).                                                    *)
(*   Spec     : a MainApi instance with its breaker, callers issuing verb  *)
(*              calls, the two timers, the transport and dispose(). The    *)
(*              two intervals are untimed: a tick may fire at any moment.  *)
(*   SpecLive : Spec without dispose(), with fairness on the timers, the   *)
(*              transport and the backoff timeouts.                        *)
(*   SpecLongBackoff: SpecLive with no fairness on the backoff timeouts.    *)
(*   SpecRecovery: SpecLive over an unbounded time, with callers that keep  *)
(*              calling.                                                   *)
(*   SpecTimed: the queue and the two intervals of a client of capacity 2  *)
(*              with their expiry times.                                   *)
(*   SpecBackoff, SpecInteraction, SpecCommands: the backoff computation,  *)
(*              extractInteractionData() and CommandList on their own.     *)
(***************************************************************************)
EXTENDS Integers, Sequences, FiniteSets, TLC

\* ------------------------------------------------------------------ bounds
\* Date.now() when the client is constructed (ms); timestamps 0 lie far back.
StartTime == 61000
\* The clock readings of the model are StartTime + resetTimeout * b + grain * a
\* with b <= MaxPeriods and a <= MaxFine.
MaxPeriods == 2
MaxFine == 4
\* Cap on currentRequestCount when the capacity is unlimited (it grows without bound).
MaxCount == 1
\* SpecTimed: an interval callback runs up to MaxLate ms after its expiry; the
\* timers run for MaxWindows windows of 60000 ms; MaxTimedCalls calls are made.
MaxLate == 1
MaxWindows == 2
MaxTimedCalls == 3
\* SpecBackoff: Math.random() takes the values r / RandomSteps, r < RandomSteps.
RandomSteps == 20
\* SpecInteraction: a customId carries up to MaxPairs key/value pairs.
MaxPairs == 2
\* SpecCommands: up to MaxPushes commands are pushed on a CommandList.
MaxPushes == 3
\* SpecRecovery: the clock advances by steps of ElapseStep ms.
ElapseStep == 30000

\* --------------------------------------------------------- CircuitBreaker
CLOSED == "CLOSED"
OPEN == "OPEN"
HALF_OPEN == "HALF_OPEN"
CircuitState == {CLOSED, OPEN, HALF_OPEN}

\* constructor(threshold = 5, resetTimeout = 60000)
threshold == 5
resetTimeout == 60000

VARIABLES
    now,             \* Date.now()
    circuitBreaker,  \* [failures, lastFailureTime, state, halfOpenAttemptTime]
    \* observations of the breaker's history (not program state)
    lastOp,          \* the last operation performed on the breaker
    lastResult,      \* what the last isOpen() returned / getState() returned
    streak,          \* recordFailure() calls since the last recordSuccess(), capped at threshold
    closedAtStart,   \* the breaker was CLOSED when the current streak started
    probeAdmitted,   \* an isOpen() returned false in HALF_OPEN since the last recorded outcome
    probeTime,       \* the time of that admission
    before,          \* state and failures of the breaker before the last operation
    \* MainApi
    maxRequestsPerMinute,  \* constructor argument (-1 = unlimited)
    nonRetryableCodes,     \* constructor argument
    queue,                 \* ApiRequest[]: an entry is named by the caller awaiting it
    currentRequestCount,
    queueTimer,            \* TRUE while the dispatch interval is armed (not null)
    resetTimer,            \* TRUE while the reset interval is armed (not null)
    inflight,              \* entries handed to axios whose answer is awaited
    calls,                 \* per caller: the retryableRequest() activation (pc, attempt, lastError, thrown)
    \* observations of the client's history (not program state)
    obs,                   \* per caller, for its current verb call: counters of what was done for it
    pending,               \* the entries not yet settled (queued or in flight), oldest first
    retried,               \* some call has started a retry attempt
    disposed,              \* dispose() has been called
    \* the two intervals as timers (used by SpecTimed only)
    timers,                \* [queueDue, resetDue: next expiry; ticks, resets: firings so far]
    \* inputs and results of the functions checked on their own
    backoff,               \* [attempt, random, waitTime]: one backoff computation of the retry loop
    interaction,           \* [kind, pairs, customId, action, extraInfo]: one extractInteractionData() call
    commandList            \* [commands, alias, pushed, asked, ran]: a CommandList and its last execute()

cbVars == <<now, circuitBreaker>>
cbObs == <<lastOp, lastResult, streak, closedAtStart, probeAdmitted, probeTime, before>>
apiVars == <<maxRequestsPerMinute, nonRetryableCodes, queue, currentRequestCount,
             queueTimer, resetTimer, inflight, calls>>
apiObs == <<obs, pending, retried, disposed>>
auxVars == <<timers, backoff, interaction, commandList>>
vars == <<cbVars, cbObs, apiVars, apiObs, auxVars>>

\* Field initialisers of class CircuitBreaker.
NewCircuitBreaker ==
    [failures |-> 0, lastFailureTime |-> 0, state |-> CLOSED, halfOpenAttemptTime |-> 0]

\* updateState() that leaves OPEN as soon as the timeout is reached (>= for >).
updateState_early(cb, t) ==
    IF cb.state = OPEN /\ t - cb.lastFailureTime >= resetTimeout
    THEN [cb EXCEPT !.state = HALF_OPEN]
    ELSE IF cb.state = CLOSED /\ cb.failures >= threshold
         THEN [cb EXCEPT !.state = OPEN]
         ELSE cb

\* updateState(): OPEN -> HALF_OPEN after the timeout, else CLOSED -> OPEN at the threshold.
updateState(cb, t) ==
    IF cb.state = OPEN /\ t - cb.lastFailureTime > resetTimeout
    THEN [cb EXCEPT !.state = HALF_OPEN]
    ELSE IF cb.state = CLOSED /\ cb.failures >= threshold
         THEN [cb EXCEPT !.state = OPEN]
         ELSE cb

\* getState(): the breaker after the call and the value returned.
getState(cb, t) ==
    LET u == updateState(cb, t) IN [cb |-> u, result |-> u.state]

\* isOpen() that admits the probe without stamping halfOpenAttemptTime.
isOpen_noStamp(cb, t) ==
    LET u == updateState(cb, t) IN
    IF u.state = HALF_OPEN
    THEN [cb |-> u, result |-> (t - u.halfOpenAttemptTime < 1000)]
    ELSE [cb |-> u, result |-> (u.state = OPEN)]

\* isOpen(): the breaker after the call and the value returned.
isOpen(cb, t) ==
    LET u == updateState(cb, t) IN
    IF u.state = HALF_OPEN
    THEN IF t - u.halfOpenAttemptTime < 1000
         THEN [cb |-> u, result |-> TRUE]
         ELSE [cb |-> [u EXCEPT !.halfOpenAttemptTime = t], result |-> FALSE]
    ELSE [cb |-> u, result |-> (u.state = OPEN)]

\* recordSuccess() that closes after a probe without clearing the failure count.
recordSuccess_keepCount(cb) ==
    IF cb.state = HALF_OPEN
    THEN [cb EXCEPT !.state = CLOSED]
    ELSE IF cb.state = CLOSED
         THEN [cb EXCEPT !.failures = 0]
         ELSE cb

\* recordSuccess() that clears the failure count after a probe only.
recordSuccess_probeOnly(cb) ==
    IF cb.state = HALF_OPEN
    THEN [cb EXCEPT !.state = CLOSED, !.failures = 0]
    ELSE cb

\* recordSuccess() that clears the failure count in every state but HALF_OPEN.
recordSuccess_clearsOpen(cb) ==
    IF cb.state = HALF_OPEN
    THEN [cb EXCEPT !.state = CLOSED, !.failures = 0]
    ELSE [cb EXCEPT !.failures = 0]

\* recordSuccess() that closes the breaker whatever its state.
recordSuccess_anyState(cb) ==
    [cb EXCEPT !.state = CLOSED, !.failures = 0]

\* recordSuccess()
recordSuccess(cb) ==
    IF cb.state = HALF_OPEN
    THEN [cb EXCEPT !.state = CLOSED, !.failures = 0]
    ELSE IF cb.state = CLOSED
         THEN [cb EXCEPT !.failures = 0]
         ELSE cb

\* recordFailure() that opens one failure late (> instead of >=).
recordFailure_late(cb, t) ==
    LET c1 == [cb EXCEPT !.lastFailureTime = t] IN
    IF c1.state = HALF_OPEN
    THEN [c1 EXCEPT !.state = OPEN]
    ELSE IF c1.state = CLOSED
         THEN LET c2 == [c1 EXCEPT !.failures = c1.failures + 1] IN
              IF c2.failures > threshold THEN [c2 EXCEPT !.state = OPEN] ELSE c2
         ELSE c1

\* recordFailure() that counts the failure whatever the state.
recordFailure_countsAlways(cb, t) ==
    LET c1 == [cb EXCEPT !.lastFailureTime = t, !.failures = cb.failures + 1] IN
    IF c1.state = HALF_OPEN
    THEN [c1 EXCEPT !.state = OPEN]
    ELSE IF c1.state = CLOSED /\ c1.failures >= threshold
         THEN [c1 EXCEPT !.state = OPEN]
         ELSE c1

\* recordFailure() that stamps lastFailureTime only while CLOSED.
recordFailure_noRefresh(cb, t) ==
    IF cb.state = HALF_OPEN
    THEN [cb EXCEPT !.state = OPEN]
    ELSE IF cb.state = CLOSED
         THEN LET c2 == [cb EXCEPT !.lastFailureTime = t, !.failures = cb.failures + 1] IN
              IF c2.failures >= threshold THEN [c2 EXCEPT !.state = OPEN] ELSE c2
         ELSE cb

\* recordFailure()
recordFailure(cb, t) ==
    LET c1 == [cb EXCEPT !.lastFailureTime = t] IN
    IF c1.state = HALF_OPEN
    THEN [c1 EXCEPT !.state = OPEN]
    ELSE IF c1.state = CLOSED
         THEN LET c2 == [c1 EXCEPT !.failures = c1.failures + 1] IN
              IF c2.failures >= threshold THEN [c2 EXCEPT !.state = OPEN] ELSE c2
         ELSE c1

Min(a, b) == IF a < b THEN a ELSE b
Max(a, b) == IF a > b THEN a ELSE b

\* ------------------------------------------------------------------ MainApi
\* The callers issuing verb calls on the client, each one call at a time
\* (await this.get(...)); a caller also names the queue entry it awaits.
Callers == {1, 2}

\* retryableRequest(requestFn, maxRetries = 3, delay = 1000)
maxRetries == 3

\* The constructor arguments (maxRequestsPerMinute, nonRetryableCodes) of the
\* clients the model builds: the defaults (-1, [404, 403]), and a client with
\* a capacity of 2 per minute and its own code list.
Configs == {[capacity |-> -1, codes |-> {404, 403}], [capacity |-> 2, codes |-> {500}]}

\* Errors: status is error.response?.status, 0 when the error carries no response.
NoError == [kind |-> "none", status |-> 0]
HttpError(code) == [kind |-> "http", status |-> code]
DisposedError == [kind |-> "disposed", status |-> 0]
CircuitOpenError == [kind |-> "circuit", status |-> 0]
\* new Error('Unknown error during retry')
UnknownError == [kind |-> "unknown", status |-> 0]
\* What axios answers to a request: a response, or one of these errors.
TransportErrors == {HttpError(404), HttpError(500)}

\* A caller that has no verb call under way.
IdleCall == [pc |-> "idle", attempt |-> 0, lastError |-> NoError, thrown |-> NoError]
\* waits counts the backoff waits of the call; errorAttempt is the index of the
\* attempt whose error lastError holds, outcomeAttempt the index of the attempt
\* whose result was returned or whose error was thrown (-1: none).
NoObs == [openAtStart |-> FALSE, probe |-> FALSE,
          enqueues |-> 0, transportAttempts |-> 0,
          recordedFailures |-> 0, recordedSuccesses |-> 0,
          waits |-> 0, errorAttempt |-> -1, outcomeAttempt |-> -1]

\* A call is under way while its retryableRequest() has not returned or thrown.
Active(k) == k.pc \in {"waiting", "backoff"}

Range(q) == {q[i] : i \in 1..Len(q)}

\* constructor(): fields, then startProcessing() arms both intervals.
InitApi ==
    /\ \E cfg \in Configs :
          /\ maxRequestsPerMinute = cfg.capacity
          /\ nonRetryableCodes = cfg.codes
    /\ queue = <<>>
    /\ currentRequestCount = 0
    /\ queueTimer = TRUE
    /\ resetTimer = TRUE
    /\ inflight = {}
    /\ calls = [c \in Callers |-> IdleCall]
    /\ obs = [c \in Callers |-> NoObs]
    /\ pending = <<>>
    /\ retried = FALSE
    /\ disposed = FALSE

\* retryableRequest, lines 95-99: the Error is constructed and dropped, nothing
\* is thrown, so control reaches the retry loop whatever isOpen() returned.
gateThrows(open) == FALSE

\* A call() that puts the entry at the head of the queue (unshift for push).
call_unshift(q, e) == <<e>> \o q

\* call(): push the entry at the tail of the queue.
call(q, e) == Append(q, e)

\* The requestFn() of attempt `att` that bypasses the queue for retries.
requestFn_bypass(q, infl, e, att) ==
    IF att = 0
    THEN [queue |-> call(q, e), inflight |-> infl]
    ELSE [queue |-> q, inflight |-> infl \cup {e}]

\* requestFn() as the verb methods pass it, () => this.call(url, ...), invoked
\* by the retry loop at index `att`: queue and in-flight set afterwards.
requestFn(q, infl, e, att) ==
    [queue |-> call(q, e), inflight |-> infl]

\* The catch block's test: the error carries a status of nonRetryableCodes.
isNonRetryable(err) ==
    err.status # 0 /\ err.status \in nonRetryableCodes

\* A loop bound one short: for (attempt = 0; attempt < maxRetries; attempt++).
isLastAttempt_short(att) == att = maxRetries - 1

\* The retry loop's bound: the attempt of this index is the last one.
isLastAttempt(att) == att = maxRetries

\* A try block that returns the result without telling the breaker.
onSuccess_silent(s, c) ==
    [cb |-> s.cb,
     calls |-> [s.calls EXCEPT ![c].pc = "resolved"],
     obs |-> [s.obs EXCEPT ![c].outcomeAttempt = s.calls[c].attempt]]

\* retryableRequest after requestFn() resolved: recordSuccess(), return result.
\* s = [cb, calls, obs].
onSuccess(s, c) ==
    [cb |-> recordSuccess(s.cb),
     calls |-> [s.calls EXCEPT ![c].pc = "resolved"],
     obs |-> [s.obs EXCEPT ![c].recordedSuccesses = @ + 1,
                           ![c].outcomeAttempt = s.calls[c].attempt]]

\* A catch block that keeps the first error it saw (lastError = lastError || error).
caught_first(s, c, err) ==
    IF s.calls[c].lastError # NoError
    THEN s
    ELSE [s EXCEPT !.calls[c].lastError = err,
                   !.obs[c].errorAttempt = s.calls[c].attempt]

\* The catch block's first statement: lastError = error.
caught(s, c, err) ==
    [s EXCEPT !.calls[c].lastError = err,
              !.obs[c].errorAttempt = s.calls[c].attempt]

\* recordFailure(), then throw lastError || new Error('Unknown error during retry').
throwLast(s, c, t) ==
    [cb |-> recordFailure(s.cb, t),
     calls |-> [s.calls EXCEPT ![c].pc = "rejected",
                               ![c].thrown = IF s.calls[c].lastError = NoError
                                             THEN UnknownError
                                             ELSE s.calls[c].lastError],
     obs |-> [s.obs EXCEPT ![c].recordedFailures = @ + 1,
                           ![c].outcomeAttempt = s.obs[c].errorAttempt]]

\* The call ends by throwing err, the error just caught, after recordFailure().
failCall(s, c, err, t) == throwLast(caught(s, c, err), c, t)

\* The catch block reaches the backoff wait: await new Promise(setTimeout).
sleep(s, c, err) ==
    [caught(s, c, err) EXCEPT !.calls[c].pc = "backoff", !.obs[c].waits = @ + 1]

\* A catch block without the non-retryable test: every error is retried.
onFailure_retryAll(s, c, err, t) ==
    IF isLastAttempt(s.calls[c].attempt)
    THEN failCall(s, c, err, t)
    ELSE sleep(s, c, err)

\* A catch block that records a failure on the breaker at every failed attempt.
onFailure_recordEach(s, c, err, t) ==
    IF isNonRetryable(err) \/ isLastAttempt(s.calls[c].attempt)
    THEN failCall(s, c, err, t)
    ELSE [sleep(s, c, err) EXCEPT !.cb = recordFailure(s.cb, t),
                                  !.obs[c].recordedFailures = @ + 1]

\* A catch block that waits first and tests for the last attempt afterwards.
onFailure_sleepFirst(s, c, err, t) ==
    IF isNonRetryable(err)
    THEN failCall(s, c, err, t)
    ELSE sleep(s, c, err)

\* retryableRequest after requestFn() rejected with err (the catch block and,
\* for the last attempt, the code after the loop); otherwise the backoff wait.
onFailure(s, c, err, t) ==
    IF isNonRetryable(err)
    THEN failCall(s, c, err, t)
    ELSE IF isLastAttempt(s.calls[c].attempt)
         THEN failCall(s, c, err, t)
         ELSE sleep(s, c, err)

\* A dispose() loop that rejects the head entry only.
rejectAll_headOnly(s, q, t) ==
    IF q = <<>>
    THEN s
    ELSE onFailure(s, Head(q), DisposedError, t)

\* dispose()'s loop: reject every queued entry, head first, with the disposed error.
RECURSIVE rejectAll(_, _, _)
rejectAll(s, q, t) ==
    IF q = <<>>
    THEN s
    ELSE rejectAll(onFailure(s, Head(q), DisposedError, t), Tail(q), t)

\* Readings Date.now() takes in the client model: construction, then two
\* instants 1000 ms apart, the first more than resetTimeout later.
ApiClock == {StartTime, StartTime + resetTimeout + 1000, StartTime + resetTimeout + 2000}

\* ------------------------------------------------ the breaker on its own
\* What `before` keeps of a breaker.
Glimpse(cb) == [state |-> cb.state, failures |-> cb.failures]

InitBreaker ==
    /\ now = StartTime
    /\ circuitBreaker = NewCircuitBreaker
    /\ lastOp = "new"
    /\ lastResult = FALSE
    /\ streak = 0
    /\ closedAtStart = TRUE
    /\ probeAdmitted = FALSE
    /\ probeTime = 0
    /\ before = Glimpse(NewCircuitBreaker)

CB_isOpen ==
    LET r == isOpen(circuitBreaker, now)
        admit == r.cb.state = HALF_OPEN /\ ~r.result IN
    /\ circuitBreaker' = r.cb
    /\ lastOp' = "isOpen"
    /\ lastResult' = r.result
    /\ probeAdmitted' = (probeAdmitted \/ admit)
    /\ probeTime' = IF admit THEN now ELSE probeTime
    /\ before' = Glimpse(circuitBreaker)
    /\ UNCHANGED <<auxVars, now, streak, closedAtStart, apiVars, apiObs>>

CB_getState ==
    LET r == getState(circuitBreaker, now) IN
    /\ circuitBreaker' = r.cb
    /\ lastOp' = "getState"
    /\ lastResult' = (r.result = OPEN)
    /\ before' = Glimpse(circuitBreaker)
    /\ UNCHANGED <<auxVars, now, streak, closedAtStart, probeAdmitted, probeTime, apiVars, apiObs>>

CB_recordSuccess ==
    /\ circuitBreaker' = recordSuccess(circuitBreaker)
    /\ lastOp' = "recordSuccess"
    /\ streak' = 0
    /\ closedAtStart' = (circuitBreaker'.state = CLOSED)
    /\ probeAdmitted' = FALSE
    /\ before' = Glimpse(circuitBreaker)
    /\ UNCHANGED <<auxVars, now, lastResult, probeTime, apiVars, apiObs>>

CB_recordFailure ==
    /\ circuitBreaker' = recordFailure(circuitBreaker, now)
    /\ lastOp' = "recordFailure"
    /\ streak' = Min(streak + 1, threshold)
    /\ probeAdmitted' = FALSE
    /\ before' = Glimpse(circuitBreaker)
    /\ UNCHANGED <<auxVars, now, lastResult, closedAtStart, probeTime, apiVars, apiObs>>

\* The readings Date.now() takes: a few instants `grain` ms apart at the start of
\* each of the first periods of resetTimeout ms.
Clock(grain, periods, fine) ==
    {StartTime + resetTimeout * b + grain * a : b \in 0..periods, a \in 0..fine}

\* Time passes: the clock jumps to a later reading.
Advance(C) ==
    \E t \in C :
        /\ t > now
        /\ now' = t

CB_Advance ==
    /\ Advance(Clock(500, MaxPeriods, MaxFine))
    /\ lastOp' = "advance"
    /\ before' = Glimpse(circuitBreaker)
    /\ UNCHANGED <<auxVars, circuitBreaker, lastResult, streak, closedAtStart, probeAdmitted, probeTime,
                   apiVars, apiObs>>

NextCB ==
    \/ CB_isOpen
    \/ CB_getState
    \/ CB_recordSuccess
    \/ CB_recordFailure
    \/ CB_Advance


\* ------------------------------------------------------- MainApi: operations
Here == [cb |-> circuitBreaker, calls |-> calls, obs |-> obs]

\* get/post/put/delete/patch(url, ...): each hands () => this.call(url, {method, ...})
\* to retryableRequest(), which runs up to its first await: consult the breaker,
\* then attempt 0.
retryableRequest(c) ==
    /\ ~Active(calls[c])
    /\ LET r == isOpen(circuitBreaker, now)
           o == [NoObs EXCEPT !.openAtStart = r.result,
                              !.probe = (r.cb.state = HALF_OPEN /\ ~r.result)]
       IN  /\ circuitBreaker' = r.cb
           /\ IF gateThrows(r.result)
              THEN /\ calls' = [calls EXCEPT ![c] = [IdleCall EXCEPT !.pc = "rejected",
                                                                     !.thrown = CircuitOpenError]]
                   /\ obs' = [obs EXCEPT ![c] = o]
                   /\ UNCHANGED <<queue, inflight, pending>>
              ELSE LET n == requestFn(queue, inflight, c, 0) IN
                   /\ calls' = [calls EXCEPT ![c] = [IdleCall EXCEPT !.pc = "waiting"]]
                   /\ queue' = n.queue
                   /\ inflight' = n.inflight
                   /\ obs' = [obs EXCEPT ![c] = [o EXCEPT !.enqueues = Len(n.queue) - Len(queue)]]
                   /\ pending' = Append(pending, c)
    /\ UNCHANGED <<auxVars, now, cbObs, maxRequestsPerMinute, nonRetryableCodes, currentRequestCount,
                   queueTimer, resetTimer, retried, disposed>>

\* A guard that lets one request too many through (> for >=).
skipTick_late ==
    \/ Len(queue) = 0
    \/ (maxRequestsPerMinute # -1 /\ currentRequestCount > maxRequestsPerMinute)

\* A guard that also holds the queue back while some call is in its backoff wait.
skipTick_whileBackoff ==
    \/ Len(queue) = 0
    \/ (maxRequestsPerMinute # -1 /\ currentRequestCount >= maxRequestsPerMinute)
    \/ \E c \in Callers : calls[c].pc = "backoff"

\* A guard that compares the count with the capacity whatever the capacity is.
skipTick_noSentinel ==
    \/ Len(queue) = 0
    \/ currentRequestCount >= maxRequestsPerMinute

\* processQueue()'s guard: nothing to do on this tick.
skipTick ==
    \/ Len(queue) = 0
    \/ (maxRequestsPerMinute # -1 /\ currentRequestCount >= maxRequestsPerMinute)

\* The entry taken from the tail of the queue, and the queue it leaves.
shift_pop(q) == [entry |-> q[Len(q)], rest |-> SubSeq(q, 1, Len(q) - 1)]

\* A read of the head entry that leaves it in the queue (queue[0] for shift()).
shift_peek(q) == [entry |-> Head(q), rest |-> q]

\* A shift() that takes the entry behind the head away as well.
shift_two(q) == [entry |-> Head(q), rest |-> IF Len(q) > 1 THEN Tail(Tail(q)) ELSE Tail(q)]

\* queue.shift(): the head entry and the queue it leaves.
shift(q) == [entry |-> Head(q), rest |-> Tail(q)]

\* A processQueue() that counts first attempts only against the window.
processQueue_freeRetries ==
    /\ queueTimer
    /\ maxRequestsPerMinute = -1 => currentRequestCount < MaxCount
    /\ IF skipTick
       THEN UNCHANGED <<queue, currentRequestCount, inflight, obs>>
       ELSE LET sh == shift(queue) IN
            /\ queue' = sh.rest
            /\ currentRequestCount' = currentRequestCount
                                        + (IF calls[sh.entry].attempt = 0 THEN 1 ELSE 0)
            /\ inflight' = inflight \cup {sh.entry}
            /\ obs' = [obs EXCEPT ![sh.entry].transportAttempts = @ + 1]
    /\ UNCHANGED <<auxVars, now, circuitBreaker, cbObs, maxRequestsPerMinute, nonRetryableCodes,
                   queueTimer, resetTimer, calls, pending, retried, disposed>>

\* The dispatch interval fires: processQueue() up to its await of axios.
processQueue ==
    /\ queueTimer
    /\ maxRequestsPerMinute = -1 => currentRequestCount < MaxCount
    /\ IF skipTick
       THEN UNCHANGED <<queue, currentRequestCount, inflight, obs>>
       ELSE LET sh == shift(queue) IN
            /\ queue' = sh.rest
            /\ currentRequestCount' = currentRequestCount + 1
            /\ inflight' = inflight \cup {sh.entry}
            /\ obs' = [obs EXCEPT ![sh.entry].transportAttempts = @ + 1]
    /\ UNCHANGED <<auxVars, now, circuitBreaker, cbObs, maxRequestsPerMinute, nonRetryableCodes,
                   queueTimer, resetTimer, calls, pending, retried, disposed>>

\* A reset interval whose callback leaves the count as it is.
resetCount_stuck ==
    /\ resetTimer
    /\ UNCHANGED vars

\* The reset interval fires.
resetCount ==
    /\ resetTimer
    /\ currentRequestCount' = 0
    /\ UNCHANGED <<auxVars, now, circuitBreaker, cbObs, maxRequestsPerMinute, nonRetryableCodes, queue,
                   queueTimer, resetTimer, inflight, calls, apiObs>>

\* The sequence q without the entries of S.
Without(q, S) == SelectSeq(q, LAMBDA x : x \notin S)

\* axios answers entry e: processQueue() resumes and calls resolve(response) or
\* reject(error); the caller's retryableRequest() resumes up to its next await.
transportAnswers(e, ok, err) ==
    /\ e \in inflight
    /\ inflight' = inflight \ {e}
    /\ pending' = Without(pending, {e})
    /\ LET s == IF ok THEN onSuccess(Here, e) ELSE onFailure(Here, e, err, now) IN
       /\ circuitBreaker' = s.cb
       /\ calls' = s.calls
       /\ obs' = s.obs
    /\ UNCHANGED <<auxVars, now, cbObs, maxRequestsPerMinute, nonRetryableCodes, queue,
                   currentRequestCount, queueTimer, resetTimer, retried, disposed>>

respond(e) == transportAnswers(e, TRUE, NoError)
fail(e) == \E err \in TransportErrors : transportAnswers(e, FALSE, err)

\* The backoff timeout of caller c expires: attempt++, and while
\* attempt <= maxRetries the loop goes to its next attempt; otherwise control
\* leaves the loop for recordFailure() and the throw.
retry(c) ==
    /\ calls[c].pc = "backoff"
    /\ LET att == calls[c].attempt + 1
           n == requestFn(queue, inflight, c, att)
       IN  IF att <= maxRetries
           THEN /\ calls' = [calls EXCEPT ![c].pc = "waiting", ![c].attempt = att]
                /\ queue' = n.queue
                /\ inflight' = n.inflight
                /\ obs' = [obs EXCEPT ![c].enqueues = @ + (Len(n.queue) - Len(queue)),
                                      ![c].transportAttempts = @ + Cardinality(n.inflight \ inflight)]
                /\ pending' = Append(pending, c)
                /\ retried' = TRUE
                /\ UNCHANGED circuitBreaker
           ELSE LET s == throwLast(Here, c, now) IN
                /\ circuitBreaker' = s.cb
                /\ calls' = s.calls
                /\ obs' = s.obs
                /\ UNCHANGED <<queue, inflight, pending, retried>>
    /\ UNCHANGED <<auxVars, now, cbObs, maxRequestsPerMinute, nonRetryableCodes,
                   currentRequestCount, queueTimer, resetTimer, disposed>>

\* A stopProcessing() that clears the reset interval only.
stopProcessing_leak == [queueTimer |-> queueTimer, resetTimer |-> FALSE]

\* stopProcessing(): both intervals are cleared and set to null.
stopProcessing == [queueTimer |-> FALSE, resetTimer |-> FALSE]

\* A dispose() that also fails the requests already handed to axios.
dispose_cancelInflight ==
    /\ queueTimer' = stopProcessing.queueTimer
    /\ resetTimer' = stopProcessing.resetTimer
    /\ queue' = <<>>
    /\ inflight' = {}
    /\ LET s == rejectAll(Here, pending, now) IN
       /\ circuitBreaker' = s.cb
       /\ calls' = s.calls
       /\ obs' = s.obs
    /\ pending' = <<>>
    /\ disposed' = TRUE
    /\ UNCHANGED <<auxVars, now, cbObs, maxRequestsPerMinute, nonRetryableCodes, currentRequestCount,
                   retried>>

\* dispose(): stopProcessing(), then every queued entry is rejected; the callers
\* awaiting those entries resume in queue order.
dispose ==
    /\ queueTimer' = stopProcessing.queueTimer
    /\ resetTimer' = stopProcessing.resetTimer
    /\ queue' = <<>>
    /\ LET s == rejectAll(Here, queue, now) IN
       /\ circuitBreaker' = s.cb
       /\ calls' = s.calls
       /\ obs' = s.obs
    /\ pending' = Without(pending, Range(queue))
    /\ disposed' = TRUE
    /\ UNCHANGED <<auxVars, now, cbObs, maxRequestsPerMinute, nonRetryableCodes, currentRequestCount,
                   inflight, retried>>

\* Time passes for the client.
tick ==
    /\ Advance(ApiClock)
    /\ UNCHANGED <<auxVars, circuitBreaker, cbObs, apiVars, apiObs>>

\* The auxiliary variables where they are not used.
NoTimers == [queueDue |-> 0, resetDue |-> 0, ticks |-> 0, resets |-> 0]
NoBackoff == [attempt |-> 0, random |-> 0, waitTime |-> -1]
NoInteraction == [kind |-> "none", pairs |-> <<>>, customId |-> <<>>,
                  action |-> <<>>, extraInfo |-> <<>>]
NoCommand == [name |-> "", clickAlias |-> ""]
NoCommandList == [commands |-> <<>>, alias |-> <<>>, pushed |-> <<>>,
                  asked |-> "", ran |-> [outcome |-> "none", command |-> NoCommand]]

Init ==
    /\ InitBreaker
    /\ InitApi
    /\ timers = NoTimers
    /\ backoff = NoBackoff
    /\ interaction = NoInteraction
    /\ commandList = NoCommandList

Next ==
    \/ \E c \in Callers : retryableRequest(c)
    \/ processQueue
    \/ resetCount
    \/ \E e \in inflight : respond(e)
    \/ \E e \in inflight : fail(e)
    \/ \E c \in Callers : retry(c)
    \/ dispose
    \/ tick

Spec == Init /\ [][Next]_vars

\* The breaker of a freshly constructed client, driven directly.
SpecCB == Init /\ [][NextCB]_vars

\* A client that is never disposed.
NextLive ==
    \/ \E c \in Callers : retryableRequest(c)
    \/ processQueue
    \/ resetCount
    \/ \E e \in inflight : respond(e)
    \/ \E e \in inflight : fail(e)
    \/ \E c \in Callers : retry(c)
    \/ tick

\* Both intervals keep firing, axios answers every request it was handed, and
\* every backoff timeout expires.
Fairness ==
    /\ WF_vars(processQueue)
    /\ WF_vars(resetCount)
    /\ \A e \in Callers : WF_vars(respond(e) \/ fail(e))
    /\ \A c \in Callers : WF_vars(retry(c))

SpecLive == Init /\ [][NextLive]_vars /\ Fairness

\* Both intervals keep firing and axios answers every request it was handed;
\* nothing is assumed of the backoff timeouts, which may last for ever.
FairnessTimers ==
    /\ WF_vars(processQueue)
    /\ WF_vars(resetCount)
    /\ \A e \in Callers : WF_vars(respond(e) \/ fail(e))

\* A client that is never disposed and whose backoff waits are arbitrarily
\* long; the clock, which no step of the scheduler reads, stands still.
NextLongBackoff ==
    \/ \E c \in Callers : retryableRequest(c)
    \/ processQueue
    \/ resetCount
    \/ \E e \in inflight : respond(e)
    \/ \E e \in inflight : fail(e)
    \/ \E c \in Callers : retry(c)

SpecLongBackoff == Init /\ [][NextLongBackoff]_vars /\ FairnessTimers

\* ------------------------------------------ MainApi over an unbounded time
\* Date.now() advances by ElapseStep ms. The reading `now` is kept and the two
\* timestamps of the breaker are moved back by the same amount instead, no
\* further than 0: every difference the code computes (now - lastFailureTime,
\* now - halfOpenAttemptTime) stays on the same side of resetTimeout and of the
\* 1000 ms of the probe window, since now = StartTime exceeds both.
elapse ==
    /\ circuitBreaker' = [circuitBreaker EXCEPT
                             !.lastFailureTime = Max(0, @ - ElapseStep),
                             !.halfOpenAttemptTime = Max(0, @ - ElapseStep)]
    /\ UNCHANGED <<auxVars, now, cbObs, apiVars, apiObs>>

\* A client that is never disposed, used for ever.
NextRecovery ==
    \/ \E c \in Callers : retryableRequest(c)
    \/ processQueue
    \/ resetCount
    \/ \E e \in inflight : respond(e)
    \/ \E e \in inflight : fail(e)
    \/ \E c \in Callers : retry(c)
    \/ elapse

\* Time advances without bound, every caller keeps making verb calls (each
\* one queries isOpen()), and the timers, the transport and the backoff
\* timeouts do their work.
FairnessRecovery ==
    /\ Fairness
    /\ WF_vars(elapse)
    /\ \A c \in Callers : WF_vars(retryableRequest(c))

SpecRecovery == Init /\ [][NextRecovery]_vars /\ FairnessRecovery

\* ------------------------------------------- MainApi with timed intervals

\* The period of the reset interval (ms).
resetInterval == 60000

\* A dispatch period that ignores the capacity.
requestInterval_perWindow(max) == resetInterval

\* requestInterval = 60000 / maxRequestsPerMinute as setInterval() uses it: a
\* delay below 1 ms, or not finite, is taken as 1 ms, and fractions are dropped.
requestInterval(max) ==
    IF max <= 0 THEN 1 ELSE Max(1, 60000 \div max)

\* The entries of the timed scenario, named by the order number of their call.
TimedEntries == 1..MaxTimedCalls

\* A client of capacity 2 just constructed: startProcessing() has armed the
\* dispatch interval and the reset interval.
InitTimed ==
    /\ InitBreaker
    /\ InitApi
    /\ maxRequestsPerMinute = 2
    /\ timers = [queueDue |-> StartTime + requestInterval(2),
                 resetDue |-> StartTime + resetInterval,
                 ticks |-> 0, resets |-> 0]
    /\ backoff = NoBackoff
    /\ interaction = NoInteraction
    /\ commandList = NoCommandList

\* call() for entry e, made right after construction (t = 0), before any timer
\* has fired; the retry layer above call() is left out.
timedCall(e) ==
    /\ now = StartTime
    /\ timers.ticks = 0
    /\ timers.resets = 0
    /\ e \notin Range(pending)
    /\ queue' = call(queue, e)
    /\ pending' = Append(pending, e)
    /\ UNCHANGED <<cbVars, cbObs, maxRequestsPerMinute, nonRetryableCodes, currentRequestCount,
                   queueTimer, resetTimer, inflight, calls, obs, retried, disposed, auxVars>>

\* The dispatch interval expires: its callback runs processQueue() up to the
\* await of axios, at its expiry or up to MaxLate ms later, and the interval
\* is rescheduled from the time the callback ran. Timers run in expiry order.
queueTimerFires ==
    /\ queueTimer
    /\ timers.queueDue <= timers.resetDue
    /\ timers.queueDue <= StartTime + MaxWindows * resetInterval
    /\ \E late \in 0..MaxLate :
          LET t == Max(now, timers.queueDue + late) IN
          /\ now' = t
          /\ timers' = [timers EXCEPT !.queueDue = t + requestInterval(maxRequestsPerMinute),
                                      !.ticks = @ + 1]
    /\ IF skipTick
       THEN UNCHANGED <<queue, currentRequestCount, inflight>>
       ELSE LET sh == shift(queue) IN
            /\ queue' = sh.rest
            /\ currentRequestCount' = currentRequestCount + 1
            /\ inflight' = inflight \cup {sh.entry}
    /\ UNCHANGED <<circuitBreaker, cbObs, maxRequestsPerMinute, nonRetryableCodes,
                   queueTimer, resetTimer, calls, apiObs, backoff, interaction, commandList>>

\* The reset interval expires: its callback zeroes the count.
resetTimerFires ==
    /\ resetTimer
    /\ timers.resetDue <= timers.queueDue
    /\ timers.resetDue <= StartTime + MaxWindows * resetInterval
    /\ \E late \in 0..MaxLate :
          LET t == Max(now, timers.resetDue + late) IN
          /\ now' = t
          /\ timers' = [timers EXCEPT !.resetDue = t + resetInterval, !.resets = @ + 1]
    /\ currentRequestCount' = 0
    /\ UNCHANGED <<circuitBreaker, cbObs, maxRequestsPerMinute, nonRetryableCodes, queue,
                   queueTimer, resetTimer, inflight, calls, apiObs, backoff, interaction,
                   commandList>>

NextTimed ==
    \/ \E e \in TimedEntries : timedCall(e)
    \/ queueTimerFires
    \/ resetTimerFires

SpecTimed == InitTimed /\ [][NextTimed]_vars

\* ------------------------------------------------- the backoff computation
\* retryableRequest(requestFn, maxRetries = 3, delay = 1000)
delay == 1000

\* A wait that grows linearly with the attempt index.
waitTime_linear(d, attempt, r, n) ==
    (d * (attempt + 1) * (85 * n + 30 * r)) \div (100 * n)

\* Math.floor(delay * Math.pow(2, attempt) * jitter) with
\* jitter = Math.random() * 0.3 + 0.85 and Math.random() = r / n.
waitTime(d, attempt, r, n) ==
    (d * 2^attempt * (85 * n + 30 * r)) \div (100 * n)

\* A failed attempt that is not the last one (attempt < maxRetries) and the
\* value Math.random() is about to return.
InitBackoff ==
    /\ InitBreaker
    /\ InitApi
    /\ timers = NoTimers
    /\ \E k \in 0..(maxRetries - 1), r \in 0..(RandomSteps - 1) :
          backoff = [attempt |-> k, random |-> r, waitTime |-> -1]
    /\ interaction = NoInteraction
    /\ commandList = NoCommandList

\* The catch block computes the wait before the next attempt.
computeWait ==
    /\ backoff.waitTime = -1
    /\ backoff' = [backoff EXCEPT
                     !.waitTime = waitTime(delay, backoff.attempt, backoff.random, RandomSteps)]
    /\ UNCHANGED <<cbVars, cbObs, apiVars, apiObs, timers, interaction, commandList>>

NextBackoff == computeWait

SpecBackoff == InitBackoff /\ [][NextBackoff]_vars

\* ------------------------------------ SimpleDiscordBot: interaction data
\* A string is the sequence of its characters.
StartsWith(s, sep) ==
    Len(s) >= Len(sep) /\ SubSeq(s, 1, Len(sep)) = sep

\* s.split(sep), cur being the piece under way: leftmost matches, empty pieces kept.
RECURSIVE splitFrom(_, _, _)
splitFrom(s, sep, cur) ==
    IF s = <<>>
    THEN <<cur>>
    ELSE IF StartsWith(s, sep)
         THEN <<cur>> \o splitFrom(SubSeq(s, Len(sep) + 1, Len(s)), sep, <<>>)
         ELSE splitFrom(Tail(s), sep, Append(cur, Head(s)))

split(s, sep) == splitFrom(s, sep, <<>>)

\* A reducer that keeps the first value given to a key.
RECURSIVE parseKeyValueString_firstWins(_, _)
parseKeyValueString_firstWins(input, result) ==
    IF input = <<>>
    THEN result
    ELSE LET parts == split(Head(input), <<":", "=">>)
             key == parts[1]
             hasValue == Len(parts) >= 2
         IN  IF key # <<>> /\ hasValue /\ parts[2] # <<>>
             THEN parseKeyValueString_firstWins(Tail(input), result @@ (key :> parts[2]))
             ELSE parseKeyValueString_firstWins(Tail(input), result)

\* parseKeyValueString(input): the reduce over the pairs, `result` being the
\* accumulator; [key, value] = pair.split(':='), kept when both are truthy.
RECURSIVE parseKeyValueString(_, _)
parseKeyValueString(input, result) ==
    IF input = <<>>
    THEN result
    ELSE LET parts == split(Head(input), <<":", "=">>)
             key == parts[1]
             hasValue == Len(parts) >= 2
         IN  IF key # <<>> /\ hasValue /\ parts[2] # <<>>
             THEN parseKeyValueString(Tail(input), (key :> parts[2]) @@ result)
             ELSE parseKeyValueString(Tail(input), result)

\* The prefixes of the command looked up.
ActionPrefix(kind) ==
    IF kind = "button"
    THEN <<"b", "u", "t", "t", "o", "n", "_">>
    ELSE <<"s", "u", "b", "m", "i", "t", "_">>

\* extractInteractionData() for a button or a modal submit of this customId.
extractInteractionData(kind, customId) ==
    LET parts == split(customId, <<";">>)
    IN  [action |-> ActionPrefix(kind) \o Head(parts),
         extraInfo |-> parseKeyValueString(Tail(parts), <<>>)]

\* The customId a component is given: cmd;k1:=v1;...;kn:=vn.
RECURSIVE formatPairs(_)
formatPairs(pairs) ==
    IF pairs = <<>>
    THEN <<>>
    ELSE <<";">> \o Head(pairs).key \o <<":", "=">> \o Head(pairs).value
         \o formatPairs(Tail(pairs))

\* The command names, keys and values the customIds are made of (all non-empty).
Cmds == {<<"c", "m", "d">>}
Keys == {<<"A">>, <<"B">>, <<"A", ":">>, <<"A", ";">>, <<":", "=">>}
Values == {<<"1">>, <<"2">>, <<":">>, <<"=">>, <<"1", ":">>, <<"1", ";">>, <<":", "=">>,
           <<"1", ":", "=", "2">>}

RECURSIVE SeqsUpTo(_, _)
SeqsUpTo(S, n) ==
    IF n = 0
    THEN {<<>>}
    ELSE LET shorter == SeqsUpTo(S, n - 1)
         IN  shorter \cup {Append(q, x) : q \in {t \in shorter : Len(t) = n - 1}, x \in S}

\* A button or modal-submit interaction arrives with such a customId.
InitInteraction ==
    /\ InitBreaker
    /\ InitApi
    /\ maxRequestsPerMinute = -1
    /\ timers = NoTimers
    /\ backoff = NoBackoff
    /\ \E kind \in {"button", "modalSubmit"}, cmd \in Cmds,
          pairs \in SeqsUpTo([key : Keys, value : Values], MaxPairs) :
          interaction = [kind |-> kind, pairs |-> pairs,
                         customId |-> cmd \o formatPairs(pairs),
                         action |-> <<>>, extraInfo |-> <<>>]
    /\ commandList = NoCommandList

\* handleInteraction() extracts the data of the interaction.
extract ==
    /\ interaction.action = <<>>
    /\ LET r == extractInteractionData(interaction.kind, interaction.customId)
       IN  interaction' = [interaction EXCEPT !.action = r.action, !.extraInfo = r.extraInfo]
    /\ UNCHANGED <<cbVars, cbObs, apiVars, apiObs, timers, backoff, commandList>>

NextInteraction == extract

SpecInteraction == InitInteraction /\ [][NextInteraction]_vars

\* ------------------------------------------------------------ CommandList
\* The commands pushed: a name and a clickAlias ("" when the command has none).
CommandNames == {"a", "b"}
ClickAliases == {"", "x", "b"}
Commands == [name : CommandNames, clickAlias : ClickAliases]
\* The names execute() is asked for; "" stands for no name at all (commandName
\* and interaction.commandName both undefined).
AskedNames == {"", "a", "b", "x", "z"}

\* push(command): the maps _commands and _alias afterwards.
push(cl, command) ==
    [cl EXCEPT !.commands = (command.name :> command) @@ cl.commands,
               !.alias = IF command.clickAlias # ""
                         THEN (command.clickAlias :> command.name) @@ cl.alias
                         ELSE cl.alias]

\* getCommand(commandName): by name first, then through the alias map;
\* NoCommand stands for undefined.
getCommand(cl, commandName) ==
    IF commandName \in DOMAIN cl.commands
    THEN cl.commands[commandName]
    ELSE IF commandName \in DOMAIN cl.alias /\ cl.alias[commandName] \in DOMAIN cl.commands
         THEN cl.commands[cl.alias[commandName]]
         ELSE NoCommand

\* execute(interaction, client, services, commandName, ...): what it runs or throws.
execute(cl, cmdName) ==
    IF cmdName = ""
    THEN [outcome |-> "error.discord.no_command_name", command |-> NoCommand]
    ELSE LET command == getCommand(cl, cmdName)
         IN  IF command = NoCommand
             THEN [outcome |-> "error.discord.command_not_found", command |-> NoCommand]
             ELSE [outcome |-> "ran", command |-> command]

InitCommands ==
    /\ InitBreaker
    /\ InitApi
    /\ maxRequestsPerMinute = -1
    /\ timers = NoTimers
    /\ backoff = NoBackoff
    /\ interaction = NoInteraction
    /\ commandList = NoCommandList

\* commandList.push(command)
CL_push ==
    /\ Len(commandList.pushed) < MaxPushes
    /\ \E command \in Commands :
          commandList' = [push(commandList, command) EXCEPT
                             !.pushed = Append(@, command),
                             !.asked = "",
                             !.ran = NoCommandList.ran]
    /\ UNCHANGED <<cbVars, cbObs, apiVars, apiObs, timers, backoff, interaction>>

\* commandList.execute(...) for the name asked
CL_execute ==
    /\ \E cmdName \in AskedNames :
          commandList' = [commandList EXCEPT !.asked = cmdName,
                                             !.ran = execute(commandList, cmdName)]
    /\ UNCHANGED <<cbVars, cbObs, apiVars, apiObs, timers, backoff, interaction>>

NextCommands ==
    \/ CL_push
    \/ CL_execute

SpecCommands == InitCommands /\ [][NextCommands]_vars

\* ================================================================ claims
\* ------------------------------------------------------- breaker (SpecCB)

\* C2: starting from a CLOSED breaker, fewer than `threshold` recordFailure()
\* calls with no recordSuccess() between them leave it CLOSED with isOpen()
\* false; once `threshold` of them are made it is OPEN and isOpen() is true
\* (for as long as the reset timeout has not elapsed since the last failure).
C2_ThresholdOpens ==
    closedAtStart =>
        /\ streak < threshold =>
               /\ circuitBreaker.state = CLOSED
               /\ ~isOpen(circuitBreaker, now).result
        /\ (streak >= threshold /\ now - circuitBreaker.lastFailureTime <= resetTimeout) =>
               /\ circuitBreaker.state = OPEN
               /\ isOpen(circuitBreaker, now).result

\* The threshold-th consecutive failure has just been recorded.
C2_Witness ==
    /\ closedAtStart
    /\ streak = threshold
    /\ lastOp = "recordFailure"
    /\ circuitBreaker.failures = threshold
    /\ circuitBreaker.state = OPEN

\* C3: when the breaker is open and more than resetTimeout ms have passed since
\* the last recorded failure, isOpen() returns false (the probe is admitted);
\* while no outcome is recorded, isOpen() returns true at every instant less
\* than 1000 ms after that admission.
C3_ProbeAdmission ==
    /\ (/\ circuitBreaker.state \in {OPEN, HALF_OPEN}
        /\ now - circuitBreaker.lastFailureTime > resetTimeout
        /\ ~probeAdmitted)
           => ~isOpen(circuitBreaker, now).result
    /\ (probeAdmitted /\ now - probeTime < 1000)
           => isOpen(circuitBreaker, now).result

\* A probe was admitted and a query 500 ms later was blocked.
C3_Witness ==
    /\ probeAdmitted
    /\ now - probeTime = 500
    /\ lastOp = "isOpen"
    /\ lastResult = TRUE
    /\ circuitBreaker.state = HALF_OPEN

\* --------------------------------------------------------- client (Spec)

\* Caller d holds the half-open probe and its outcome is not yet recorded.
HoldsProbe(d) == obs[d].probe /\ Active(calls[d])

\* The entries whose resolve/reject is called in this step.
Settled == Range(pending) \ Range(pending')

\* Position of entry x in the sequence q.
Index(q, x) == CHOOSE i \in 1..Len(q) : q[i] = x

\* Entry d was enqueued before entry c (both pending).
Older(d, c) == Index(pending, d) < Index(pending, c)

\* C1: a verb call that starts while isOpen() returns true fails at once with
\* the circuit-open error; nothing is queued and the transport is not invoked.
C1_OpenFailsFast ==
    \A c \in Callers :
        obs[c].openAtStart =>
            /\ calls[c].pc = "rejected"
            /\ calls[c].thrown = CircuitOpenError
            /\ obs[c].enqueues = 0
            /\ obs[c].transportAttempts = 0

\* C4: while a call admitted as the half-open probe is outstanding, no other
\* verb call that starts is admitted to the queue or to the transport.
C4_SingleProbe ==
    [][\A c \in Callers :
          (/\ \E d \in Callers \ {c} : HoldsProbe(d)
           /\ ~Active(calls[c])
           /\ calls'[c] # calls[c])
             => (queue' = queue /\ inflight' = inflight /\ calls'[c].pc = "rejected")]_vars

\* C5: on a client that is not disposed, a call rejected after failing with
\* retryable errors only has made exactly maxRetries + 1 transport attempts,
\* whatever the other callers do; no call ever makes more.
C5_RetryBudget ==
    \A c \in Callers :
        /\ obs[c].transportAttempts <= maxRetries + 1
        /\ (/\ ~disposed
            /\ calls[c].pc = "rejected"
            /\ calls[c].thrown.kind = "http"
            /\ calls[c].thrown.status \notin nonRetryableCodes)
               => /\ obs[c].transportAttempts = maxRetries + 1
                  /\ calls[c].attempt = maxRetries

\* A call was rejected after four transport attempts while another call is under way.
C5_Witness ==
    \E c \in Callers, d \in Callers :
        /\ c # d
        /\ ~disposed
        /\ calls[c].pc = "rejected"
        /\ calls[c].thrown.kind = "http"
        /\ calls[c].thrown.status \notin nonRetryableCodes
        /\ obs[c].transportAttempts = 4
        /\ Active(calls[d])
        /\ calls[d].attempt = 1

\* C6: when the transport fails an attempt with a status of the configured
\* non-retryable set, the call is rejected in that step with that error,
\* nothing is queued for it and it does not wait; recordFailure() has been
\* invoked once for it (failures + 1 when CLOSED); a first attempt failing
\* so gives exactly one transport attempt.
C6_NonRetryable ==
    [][\A e \in Callers, err \in TransportErrors :
          (transportAnswers(e, FALSE, err) /\ err.status \in nonRetryableCodes)
             => /\ calls'[e].pc = "rejected"
                /\ calls'[e].thrown = err
                /\ e \notin Range(queue') \cup inflight'
                /\ obs'[e].recordedFailures = 1
                /\ circuitBreaker'.lastFailureTime = now
                /\ (circuitBreaker.state = CLOSED
                      => circuitBreaker'.failures = circuitBreaker.failures + 1)
                /\ (calls[e].attempt = 0 => obs'[e].transportAttempts = 1)]_vars

\* A first attempt was rejected with a status of a non-default non-retryable set.
C6_Witness ==
    \E c \in Callers :
        /\ calls[c].pc = "rejected"
        /\ calls[c].thrown = HttpError(500)
        /\ nonRetryableCodes = {500}
        /\ calls[c].attempt = 0
        /\ obs[c].transportAttempts = 1
        /\ obs[c].recordedFailures = 1
        /\ circuitBreaker.failures = 1

\* C7: a failed attempt that is not the last one leaves the breaker unchanged
\* and records nothing; the failure of the last attempt records exactly one
\* failure on the breaker.
C7_OneFailurePerExhaustedCall ==
    [][\A e \in Callers, err \in TransportErrors :
          (transportAnswers(e, FALSE, err) /\ err.status \notin nonRetryableCodes)
             => IF calls[e].attempt < maxRetries
                THEN /\ circuitBreaker' = circuitBreaker
                     /\ obs'[e].recordedFailures = 0
                     /\ calls'[e].pc = "backoff"
                ELSE /\ obs'[e].recordedFailures = 1
                     /\ circuitBreaker'.lastFailureTime = now
                     /\ (circuitBreaker.state = CLOSED
                           => circuitBreaker'.failures = circuitBreaker.failures + 1)
                     /\ calls'[e].pc = "rejected"]_vars

\* A call exhausted its four attempts and the breaker counts one failure.
C7_Witness ==
    \E c \in Callers :
        /\ calls[c].pc = "rejected"
        /\ calls[c].attempt = maxRetries
        /\ obs[c].transportAttempts = maxRetries + 1
        /\ obs[c].recordedFailures = 1
        /\ circuitBreaker.failures = 1
        /\ circuitBreaker.state = CLOSED

\* C8 as stated: the queue receives one entry per verb call, for its first
\* attempt only.
C8_OneEntryPerCall ==
    \A c \in Callers : obs[c].enqueues <= 1

\* C8 amended: every attempt of a verb call, retries included, is appended
\* at the tail of the queue: one entry per attempt.
C8_OneEntryPerAttempt ==
    /\ [](\A c \in Callers :
            calls[c].pc # "idle" => obs[c].enqueues = calls[c].attempt + 1)
    /\ [][\A c \in Callers :
            calls'[c].attempt = calls[c].attempt + 1
               => (queue' = Append(queue, c) /\ inflight' = inflight)]_vars

\* The second attempt of a call sits in the queue.
C8_Witness ==
    \E c \in Callers :
        /\ calls[c].attempt = 1
        /\ calls[c].pc = "waiting"
        /\ c \in Range(queue)
        /\ obs[c].enqueues = 2

\* C9: entries are handed to the transport in enqueue order: the queue holds
\* the pending entries not yet dispatched, oldest first, and a tick
\* dispatches the head of the queue and nothing else.
C9_FifoDispatch ==
    /\ [](queue = Without(pending, inflight))
    /\ [][\A c \in Callers :
            (c \notin inflight /\ c \in inflight')
               => /\ queue # <<>>
                  /\ c = Head(queue)
                  /\ queue' = Tail(queue)
                  /\ \A d \in Range(pending) : Older(d, c) => d \in inflight]_vars

\* Of two queued entries the older one has been dispatched, the younger waits.
C9_Witness ==
    /\ Len(pending) = 2
    /\ pending[1] \in inflight
    /\ queue = <<pending[2]>>
    /\ currentRequestCount = 1

\* C10 as stated (on a client that is not disposed): with no retries, an
\* entry never settles while an entry enqueued before it is still pending.
C10_SettleInOrder ==
    [][(~retried' /\ ~disposed') =>
          \A c \in Settled : \A d \in Range(pending') : ~Older(d, c)]_vars

\* C10 amended: with no retries, when an entry settles every entry enqueued
\* before it has settled or is in flight at the transport (none is still
\* queued); results settle in the order of the transport's answers.
C10_OlderDispatchedFirst ==
    [][~retried' =>
          \A c \in Settled : \A d \in Range(pending') :
              Older(d, c) => d \in inflight']_vars

\* With no retry, two entries are in flight at once, dispatched oldest first:
\* the transport may answer either one first.
C10_Witness ==
    /\ ~retried
    /\ ~disposed
    /\ Len(pending) = 2
    /\ Range(pending) \subseteq inflight
    /\ queue = <<>>
    /\ \A c \in Callers : calls[c].pc = "waiting" /\ calls[c].attempt = 0


\* ------------------------------------------- breaker transitions (SpecCB)

\* C18: recordSuccess() on a HALF_OPEN breaker sets the state to CLOSED and
\* failures to 0, and isOpen() then returns false, at that instant and at every
\* later one for as long as no failure is recorded.
C18_ProbeSuccessCloses ==
    /\ [][(lastOp' = "recordSuccess" /\ circuitBreaker.state = HALF_OPEN)
            => /\ circuitBreaker'.state = CLOSED
               /\ circuitBreaker'.failures = 0
               /\ ~isOpen(circuitBreaker', now').result]_vars
    /\ []((circuitBreaker.state = CLOSED /\ streak = 0)
            => ~isOpen(circuitBreaker, now).result)

\* A success was recorded on a HALF_OPEN breaker that counted `threshold` failures.
C18_Witness ==
    /\ lastOp = "recordSuccess"
    /\ before = [state |-> HALF_OPEN, failures |-> threshold]
    /\ circuitBreaker.state = CLOSED
    /\ circuitBreaker.failures = 0

\* C19: recordFailure() on a HALF_OPEN breaker sets the state to OPEN and
\* lastFailureTime to the current time; an OPEN breaker answers isOpen() with
\* true exactly while no more than resetTimeout ms have passed since
\* lastFailureTime.
C19_ProbeFailureReopens ==
    /\ [][(lastOp' = "recordFailure" /\ circuitBreaker.state = HALF_OPEN)
            => /\ circuitBreaker'.state = OPEN
               /\ circuitBreaker'.lastFailureTime = now
               /\ isOpen(circuitBreaker', now').result]_vars
    /\ [](circuitBreaker.state = OPEN
            => (isOpen(circuitBreaker, now).result
                  <=> now - circuitBreaker.lastFailureTime <= resetTimeout))

\* A failure was recorded on a HALF_OPEN breaker after an admitted probe.
C19_Witness ==
    /\ lastOp = "recordFailure"
    /\ before.state = HALF_OPEN
    /\ circuitBreaker.state = OPEN
    /\ circuitBreaker.halfOpenAttemptTime > 0
    /\ circuitBreaker.lastFailureTime = now
    /\ now > StartTime + resetTimeout

\* C20: recordSuccess() on a CLOSED breaker keeps it CLOSED and sets failures
\* to 0; while CLOSED, failures counts the recordFailure() calls made since the
\* last recordSuccess() and stays below `threshold`, and the breaker leaves
\* CLOSED only on the recordFailure() that is the threshold-th of such a run.
C20_SuccessClearsStreak ==
    /\ [][(lastOp' = "recordSuccess" /\ circuitBreaker.state = CLOSED)
            => /\ circuitBreaker'.state = CLOSED
               /\ circuitBreaker'.failures = 0]_vars
    /\ [](circuitBreaker.state = CLOSED
            => /\ circuitBreaker.failures = streak
               /\ streak < threshold)
    /\ [][(circuitBreaker.state = CLOSED /\ circuitBreaker'.state # CLOSED)
            => /\ lastOp' = "recordFailure"
               /\ streak = threshold - 1
               /\ streak' = threshold]_vars

\* A success was recorded on a CLOSED breaker one failure short of opening.
C20_Witness ==
    /\ lastOp = "recordSuccess"
    /\ before = [state |-> CLOSED, failures |-> threshold - 1]
    /\ circuitBreaker.state = CLOSED
    /\ circuitBreaker.failures = 0


\* ------------------------------------------ rate window and disposal (Spec)

\* An entry is handed to the transport in this step.
Dispatched == inflight' \ inflight

\* C11: with a bounded capacity the count stays within 0..capacity; an entry
\* is dispatched only while the count is below the capacity and the dispatch
\* adds one to it; the count otherwise changes only by being reset to 0, so at
\* most `capacity` entries are dispatched between two resets.
C11_WindowBudget ==
    /\ [](maxRequestsPerMinute # -1
            => (0 <= currentRequestCount /\ currentRequestCount <= maxRequestsPerMinute))
    /\ [][(maxRequestsPerMinute # -1 /\ Dispatched # {})
            => /\ currentRequestCount < maxRequestsPerMinute
               /\ Cardinality(Dispatched) = 1
               /\ currentRequestCount' = currentRequestCount + 1]_vars
    /\ [][(maxRequestsPerMinute # -1 /\ currentRequestCount' # currentRequestCount)
            => (Dispatched # {} \/ currentRequestCount' = 0)]_vars

\* The window of a client of capacity 2 is used up and an entry waits for the reset.
C11_Witness ==
    /\ maxRequestsPerMinute = 2
    /\ currentRequestCount = 2
    /\ queue # <<>>
    /\ queueTimer

C13_DisposeDrainsQueue ==
    [][dispose =>
          /\ queue' = <<>>
          /\ ~queueTimer'
          /\ ~resetTimer'
          /\ \A c \in Range(queue) :
                /\ calls'[c].lastError = DisposedError
                /\ c \notin Range(pending')
                /\ obs'[c].recordedFailures - obs[c].recordedFailures
                      = (IF calls[c].attempt = maxRetries THEN 1 ELSE 0)
          /\ \A c \in Callers \ Range(queue) : calls'[c] = calls[c]]_vars

\* dispose() found two entries in the queue and rejected both.
C13_Witness ==
    /\ disposed
    /\ queue = <<>>
    /\ pending = <<>>
    /\ ~queueTimer
    /\ ~resetTimer
    /\ \A c \in Callers :
          /\ calls[c].lastError = DisposedError
          /\ calls[c].attempt = 0
          /\ obs[c].transportAttempts = 0

\* C14: a verb call whose entry is in the queue when dispose() is called is
\* rejected with the disposed error.
C14_DisposedErrorSurfaces ==
    [][dispose =>
          \A c \in Range(queue) :
              /\ calls'[c].pc = "rejected"
              /\ calls'[c].thrown = DisposedError]_vars

\* C16: once dispose() has been called both timers stay stopped: no entry is
\* handed to the transport and the count does not change.
C16_NoSchedulingAfterDispose ==
    /\ [](disposed => (~queueTimer /\ ~resetTimer))
    /\ [][disposed => (Dispatched = {} /\ currentRequestCount' = currentRequestCount)]_vars

\* After dispose() an entry sits in the queue and the count is stuck above 0.
C16_Witness ==
    /\ disposed
    /\ queue # <<>>
    /\ currentRequestCount > 0

\* C17: dispose() leaves alone every entry already handed to the transport
\* (it stays in flight; its call is untouched), and when the transport answers
\* it after disposal the entry settles with that answer: the call resolves, or
\* its retry loop receives the transport's error.
C17_InflightUnaffected ==
    /\ [][dispose =>
            \A e \in inflight :
                /\ e \in inflight'
                /\ e \in Range(pending')
                /\ calls'[e] = calls[e]
                /\ obs'[e] = obs[e]]_vars
    /\ [][\A e \in Callers :
            (disposed /\ e \in inflight /\ e \notin inflight')
               => \/ calls'[e].pc = "resolved"
                  \/ /\ calls'[e].lastError \in TransportErrors
                     /\ calls'[e].pc \in {"backoff", "rejected"}]_vars

\* dispose() rejected the queued entry of one caller while the entry of the
\* other stays in flight.
C17_Witness ==
    \E c \in Callers, d \in Callers :
        /\ disposed
        /\ c \in inflight
        /\ calls[c].pc = "waiting"
        /\ calls[c].lastError = NoError
        /\ calls[d].pc = "backoff"
        /\ calls[d].lastError = DisposedError

\* ------------------------------------------------- termination (SpecLive)

\* The call of caller c has returned or thrown.
Done(c) == calls[c].pc \in {"resolved", "rejected"}

\* C15: on a client that is never disposed, of capacity -1 or 2, every verb
\* call under way eventually resolves or rejects; once it has, none of its
\* entries is pending and its outcome changes only when the caller starts a
\* new call.
C15_EveryCallSettles ==
    /\ \A c \in Callers : Active(calls[c]) ~> Done(c)
    /\ [](\A c \in Callers : Done(c) => c \notin Range(pending))
    /\ [][\A c \in Callers :
            Done(c) => \/ calls'[c] = calls[c]
                       \/ (calls'[c].pc = "waiting" /\ calls'[c].attempt = 0)]_vars

\* A call on a client of capacity 2 was rejected after four transport
\* attempts, which takes a window reset.
C15_Witness ==
    \E c \in Callers :
        /\ maxRequestsPerMinute = 2
        /\ calls[c].pc = "rejected"
        /\ obs[c].transportAttempts = maxRetries + 1
        /\ c \notin Range(pending)


\* ----------------------------------------- breaker frame effects (SpecCB)

\* C26: recordFailure() on an OPEN breaker leaves state, failures and
\* lastFailureTime unchanged.
C26_FailureWhileOpenNoEffect ==
    [][(lastOp' = "recordFailure" /\ circuitBreaker.state = OPEN)
          => circuitBreaker' = circuitBreaker]_vars

\* C27: on an OPEN breaker recordSuccess() changes nothing, and neither
\* recordSuccess() nor recordFailure() changes the state or failures.
C27_OpenIgnoresOutcomes ==
    /\ [][(lastOp' = "recordSuccess" /\ circuitBreaker.state = OPEN)
            => circuitBreaker' = circuitBreaker]_vars
    /\ [][(lastOp' \in {"recordSuccess", "recordFailure"} /\ circuitBreaker.state = OPEN)
            => /\ circuitBreaker'.state = OPEN
               /\ circuitBreaker'.failures = circuitBreaker.failures]_vars

\* A success was recorded on an OPEN breaker, which stays OPEN with its count.
C27_Witness ==
    /\ lastOp = "recordSuccess"
    /\ before = [state |-> OPEN, failures |-> threshold]
    /\ circuitBreaker.state = OPEN
    /\ circuitBreaker.failures = threshold
    /\ streak = 0

\* C29: in one step the state changes only from CLOSED to OPEN, from OPEN to
\* HALF_OPEN, from HALF_OPEN to CLOSED or from HALF_OPEN to OPEN.
C29_LegalTransitions ==
    [][circuitBreaker'.state # circuitBreaker.state
          => <<circuitBreaker.state, circuitBreaker'.state>>
                \in {<<CLOSED, OPEN>>, <<OPEN, HALF_OPEN>>,
                     <<HALF_OPEN, CLOSED>>, <<HALF_OPEN, OPEN>>}]_vars

\* getState() moves the breaker to HALF_OPEN for the second time: it has been
\* through HALF_OPEN (a probe was admitted) and back to OPEN before.
C29_Witness ==
    /\ lastOp = "getState"
    /\ before.state = OPEN
    /\ circuitBreaker.state = HALF_OPEN
    /\ circuitBreaker.halfOpenAttemptTime > 0

\* C30: isOpen() on an OPEN breaker returns true whenever no more than
\* resetTimeout ms have passed since lastFailureTime, and the breaker moves
\* from OPEN to HALF_OPEN only in an isOpen() or getState() made later than that.
C30_OpenBlocksWholeTimeout ==
    /\ []((circuitBreaker.state = OPEN
             /\ now - circuitBreaker.lastFailureTime <= resetTimeout)
            => (/\ isOpen(circuitBreaker, now).result
                /\ isOpen(circuitBreaker, now).cb = circuitBreaker
                /\ getState(circuitBreaker, now).result = OPEN))
    /\ [][(circuitBreaker.state = OPEN /\ circuitBreaker'.state = HALF_OPEN)
            => /\ lastOp' \in {"isOpen", "getState"}
               /\ now - circuitBreaker.lastFailureTime > resetTimeout]_vars

\* isOpen() is asked exactly resetTimeout ms after the last failure and blocks.
C30_Witness ==
    /\ lastOp = "isOpen"
    /\ lastResult = TRUE
    /\ circuitBreaker.state = OPEN
    /\ now - circuitBreaker.lastFailureTime = resetTimeout

\* ------------------------------------- breaker and concurrent calls (Spec)

\* C25: no failure is recorded on the breaker for a call that found it open.
C25_OpenCallRecordsNothing ==
    \A c \in Callers : obs[c].openAtStart => obs[c].recordedFailures = 0

\* The calls whose success is recorded in this step.
Succeeds == {e \in inflight \ inflight' : calls'[e].pc = "resolved"}

\* C28: the breaker moves to CLOSED only when the success recorded is that of
\* the call admitted as the half-open probe (the successes of calls that
\* started while isOpen() returned true, which C1 rules out, are left aside).
C28_OnlyProbeCloses ==
    [][(/\ circuitBreaker.state # CLOSED
        /\ circuitBreaker'.state = CLOSED
        /\ \A e \in Succeeds : ~obs[e].openAtStart)
          => \E e \in Succeeds : obs[e].probe]_vars


\* ---------------------------------------------- rate window (SpecTimed)

\* C21: capacity 2, three calls enqueued at t = 0: the first is dispatched by
\* the first tick of the dispatch interval, 30000 ms after construction (or
\* up to MaxLate later), the second by the second tick, and the third is not
\* dispatched before the reset interval has fired.
C21_WindowScenario ==
    [][Len(pending) >= 3 =>
          /\ (timers.ticks = 0 /\ timers'.ticks = 1)
                => /\ Dispatched = {pending[1]}
                   /\ now' >= StartTime + 30000
                   /\ now' <= StartTime + 30000 + MaxLate
          /\ (timers.ticks = 1 /\ timers'.ticks = 2)
                => /\ Dispatched = {pending[2]}
                   /\ now' >= StartTime + 60000
          /\ pending[3] \in Dispatched
                => /\ timers.resets >= 1
                   /\ timers'.ticks >= 3
                   /\ currentRequestCount < maxRequestsPerMinute]_vars

\* The three calls were dispatched by the first three ticks, with one reset.
C21_Witness ==
    /\ pending = <<1, 2, 3>>
    /\ inflight = {1, 2, 3}
    /\ timers.ticks = 3
    /\ timers.resets = 1
    /\ now >= StartTime + 90000


\* ------------------------------------------------- backoff (SpecBackoff)

\* C22: the wait after the failed attempt of index k lies between
\* 0.85 * delay * 2^k and 1.15 * delay * 2^k: in [850, 1150], [1700, 2300]
\* and [3400, 4600] ms for k = 0, 1, 2.
C22_BackoffRange ==
    backoff.waitTime # -1 =>
        LET k == backoff.attempt
            w == backoff.waitTime
        IN  /\ 100 * w >= 85 * delay * 2^k
            /\ 100 * w <= 115 * delay * 2^k
            /\ k = 0 => (850 <= w /\ w <= 1150)
            /\ k = 1 => (1700 <= w /\ w <= 2300)
            /\ k = 2 => (3400 <= w /\ w <= 4600)

\* The shortest wait before the last attempt: Math.random() returned 0.
C22_Witness ==
    /\ backoff.attempt = maxRetries - 1
    /\ backoff.random = 0
    /\ backoff.waitTime = 3400


\* ------------------------------------- interaction data (SpecInteraction)

\* The map {k1: v1, ..., kn: vn}: a key given twice has its last value.
RECURSIVE MapOf(_)
MapOf(pairs) ==
    IF pairs = <<>>
    THEN <<>>
    ELSE LET n == Len(pairs)
         IN  (pairs[n].key :> pairs[n].value) @@ MapOf(SubSeq(pairs, 1, n - 1))

\* The string holds neither the pair separator ';' nor the key/value separator ':='.
NoSeparator(s) ==
    \A i \in 1..Len(s) :
        /\ s[i] # ";"
        /\ ~(s[i] = ":" /\ i < Len(s) /\ s[i + 1] = "=")

\* The data extracted are the command and the map the customId was made of.
ExtractedAsGiven ==
    /\ interaction.action = ActionPrefix(interaction.kind) \o <<"c", "m", "d">>
    /\ interaction.extraInfo = MapOf(interaction.pairs)

\* C23 as stated: for every customId cmd;k1:=v1;...;kn:=vn with non-empty keys
\* and values, the command looked up is button_cmd (submit_cmd) and extraInfo
\* is the map {k1: v1, ..., kn: vn}.
C23_ExtraInfoIsMap ==
    interaction.action # <<>> => ExtractedAsGiven

\* C23 amended: the same, for keys and values that contain neither ';' nor ':='.
C23_ExtraInfoIsMapNoSeparator ==
    (/\ interaction.action # <<>>
     /\ \A i \in 1..Len(interaction.pairs) :
           /\ NoSeparator(interaction.pairs[i].key)
           /\ NoSeparator(interaction.pairs[i].value))
       => ExtractedAsGiven

\* A button whose customId carries two keys was parsed into a map of two entries.
C23_Witness ==
    /\ interaction.kind = "button"
    /\ interaction.customId = <<"c", "m", "d", ";", "A", ":", "=", "1", ";", "B", ":", "=", "2">>
    /\ interaction.action = <<"b", "u", "t", "t", "o", "n", "_", "c", "m", "d">>
    /\ DOMAIN interaction.extraInfo = {<<"A">>, <<"B">>}
    /\ interaction.extraInfo[<<"A">>] = <<"1">>
    /\ interaction.extraInfo[<<"B">>] = <<"2">>


\* --------------------------------------------- CommandList (SpecCommands)

\* The most recently pushed command that satisfies P, NoCommand if there is none.
LastPushed(P(_)) ==
    LET hits == {i \in 1..Len(commandList.pushed) : P(commandList.pushed[i])}
    IN  IF hits = {}
        THEN NoCommand
        ELSE commandList.pushed[CHOOSE i \in hits : \A j \in hits : j <= i]

\* C24: execute(name) runs the command most recently pushed under that name
\* if there is one, otherwise the (most recently pushed) command whose
\* clickAlias is that name; with neither, or with no name, it throws and runs
\* nothing.
C24_ExecuteRunsNamedOrAliased ==
    commandList.ran.outcome # "none" =>
        LET n == commandList.asked
            named == LastPushed(LAMBDA c : c.name = n)
            aliased == LastPushed(LAMBDA c : c.clickAlias = n)
        IN  IF n = ""
            THEN commandList.ran.outcome = "error.discord.no_command_name"
            ELSE IF named # NoCommand
                 THEN commandList.ran = [outcome |-> "ran", command |-> named]
                 ELSE IF aliased # NoCommand
                      THEN commandList.ran = [outcome |-> "ran", command |-> aliased]
                      ELSE commandList.ran.outcome = "error.discord.command_not_found"


\* ------------------------------------------------ the retry loop (Spec)

\* C31: a call whose attempt of index k is the first to succeed resolves in
\* the step in which the transport answers that attempt's entry, with that
\* answer; it has made k + 1 transport attempts, recordSuccess() has been
\* invoked once for it (in that step) and recordFailure() never.
C31_FirstSuccessSettles ==
    /\ [][\A e \in Succeeds :
            /\ obs'[e].outcomeAttempt = calls[e].attempt
            /\ obs'[e].transportAttempts = calls[e].attempt + 1
            /\ obs'[e].recordedSuccesses = obs[e].recordedSuccesses + 1
            /\ circuitBreaker' = recordSuccess(circuitBreaker)]_vars
    /\ [](\A c \in Callers :
            calls[c].pc = "resolved"
               => /\ obs[c].transportAttempts = calls[c].attempt + 1
                  /\ obs[c].outcomeAttempt = calls[c].attempt
                  /\ obs[c].recordedSuccesses = 1
                  /\ obs[c].recordedFailures = 0
                  /\ calls[c].thrown = NoError)

\* A call resolved at its third attempt, after two failed attempts and two waits.
C31_Witness ==
    \E c \in Callers :
        /\ calls[c].pc = "resolved"
        /\ calls[c].attempt = 2
        /\ obs[c].transportAttempts = 3
        /\ obs[c].waits = 2
        /\ obs[c].recordedSuccesses = 1
        /\ obs[c].recordedFailures = 0

\* The call of caller e exhausts its budget in this step: its last attempt
\* fails with an error that does not carry a non-retryable status.
Exhausts(e) ==
    /\ calls[e].pc = "waiting"
    /\ calls[e].attempt = maxRetries
    /\ calls'[e].pc = "rejected"
    /\ ~isNonRetryable(calls'[e].thrown)

\* C32: a call that exhausts its budget is rejected with the error of its
\* last attempt (index maxRetries): the error with which that attempt's entry
\* was rejected in this step, by the transport or by dispose(), and not the
\* error of an earlier attempt nor the generic one.
C32_LastErrorThrown ==
    /\ [][\A e \in Callers :
            Exhausts(e)
               => /\ obs'[e].outcomeAttempt = maxRetries
                  /\ obs'[e].errorAttempt = maxRetries
                  /\ calls'[e].thrown = calls'[e].lastError
                  /\ calls'[e].thrown # UnknownError
                  /\ IF e \in inflight
                     THEN calls'[e].thrown \in TransportErrors
                     ELSE calls'[e].thrown = DisposedError]_vars
    /\ [](\A c \in Callers :
            calls[c].pc = "rejected"
               => /\ obs[c].outcomeAttempt = calls[c].attempt
                  /\ calls[c].thrown \in TransportErrors \cup {DisposedError})

\* A call was rejected with the error of its fourth attempt, after three waits.
C32_Witness ==
    \E c \in Callers :
        /\ calls[c].pc = "rejected"
        /\ calls[c].thrown = HttpError(404)
        /\ nonRetryableCodes = {500}
        /\ obs[c].outcomeAttempt = maxRetries
        /\ obs[c].errorAttempt = maxRetries
        /\ obs[c].waits = maxRetries

\* C33: when the attempt of index maxRetries fails the call rejects in that
\* step, without a backoff wait; a wait precedes each attempt but the first,
\* so a call that exhausts its budget has made exactly maxRetries waits.
C33_NoWaitAfterLastAttempt ==
    /\ [][\A e \in Settled :
            (calls[e].attempt = maxRetries /\ calls'[e].pc # "resolved")
               => /\ calls'[e].pc = "rejected"
                  /\ obs'[e].waits = maxRetries]_vars
    /\ [][\A c \in Callers :
            calls'[c].attempt = calls[c].attempt + 1
               => /\ calls[c].pc = "backoff"
                  /\ obs'[c].waits = calls'[c].attempt]_vars
    /\ [](\A c \in Callers :
            /\ obs[c].waits <= maxRetries
            /\ obs[c].waits = calls[c].attempt + (IF calls[c].pc = "backoff" THEN 1 ELSE 0))

\* A call on the default client was rejected at its fourth transport attempt
\* after three waits.
C33_Witness ==
    \E c \in Callers :
        /\ calls[c].pc = "rejected"
        /\ calls[c].thrown = HttpError(500)
        /\ nonRetryableCodes = {404, 403}
        /\ calls[c].attempt = maxRetries
        /\ obs[c].transportAttempts = maxRetries + 1
        /\ obs[c].waits = maxRetries


\* ------------------------------------------------- the dispatch tick (Spec)

\* C34: a dispatch tick that finds the queue empty, or the budget of a bounded
\* client used up, changes neither the queue nor the count; any other tick
\* removes exactly one entry, the head, and adds exactly one to the count.
C34_TickTakesOne ==
    [][processQueue =>
          IF \/ queue = <<>>
             \/ (maxRequestsPerMinute # -1 /\ currentRequestCount >= maxRequestsPerMinute)
          THEN /\ queue' = queue
               /\ currentRequestCount' = currentRequestCount
               /\ inflight' = inflight
          ELSE /\ Len(queue') = Len(queue) - 1
               /\ queue' = Tail(queue)
               /\ currentRequestCount' = currentRequestCount + 1
               /\ Dispatched = {Head(queue)}]_vars

\* A tick of the unlimited client took one of two queued entries and left the other.
C34_Witness ==
    /\ maxRequestsPerMinute = -1
    /\ currentRequestCount = 1
    /\ Len(queue) = 1
    /\ Cardinality(inflight) = 1
    /\ ~retried
    /\ ~disposed


\* ------------------------------------- backoff and the scheduler (SpecLongBackoff)

\* C35: while a call is in its backoff wait, however long the wait lasts, the
\* queued entry of another call is eventually dispatched and an entry of
\* another call in flight is eventually settled.
C35_BackoffDelaysNoOne ==
    \A c \in Callers : \A d \in Callers \ {c} :
        /\ (calls[c].pc = "backoff" /\ d \in Range(queue)) ~> (d \in inflight)
        /\ (calls[c].pc = "backoff" /\ d \in inflight) ~> (d \notin inflight)

\* A call is in its first backoff wait, no wait has ended yet, and the entry
\* of the other call is at the transport.
C35_Witness ==
    \E c \in Callers : \E d \in Callers \ {c} :
        /\ calls[c].pc = "backoff"
        /\ obs[c].waits = 1
        /\ ~retried
        /\ d \in inflight
        /\ queue = <<>>


\* ------------------------------------------- breaker invariants (SpecCB)

\* C36: failures lies in 0..threshold; it is below threshold while the
\* breaker is CLOSED and equal to threshold while it is OPEN or HALF_OPEN.
C36_FailureCountInvariant ==
    /\ 0 <= circuitBreaker.failures
    /\ circuitBreaker.failures <= threshold
    /\ circuitBreaker.state = CLOSED => circuitBreaker.failures < threshold
    /\ circuitBreaker.state \in {OPEN, HALF_OPEN} => circuitBreaker.failures = threshold

\* A failure was recorded on an OPEN breaker: the count stays at threshold.
C36_Witness ==
    /\ lastOp = "recordFailure"
    /\ before = [state |-> OPEN, failures |-> threshold]
    /\ circuitBreaker.state = OPEN
    /\ circuitBreaker.failures = threshold


\* ------------------------------------- retries and the rate window (Spec)

\* C37: an entry reaches the transport only in a step of the dispatch tick,
\* which takes it from the head of the queue and adds one to the count, be it
\* a first attempt or a retry; with a bounded capacity the count, which only
\* a reset lowers, stays within the capacity, so no more than `capacity`
\* transport invocations are made between two resets.
C37_RetriesCountInWindow ==
    /\ [][\A e \in Dispatched :
            /\ queueTimer
            /\ queue # <<>>
            /\ e = Head(queue)
            /\ queue' = Tail(queue)
            /\ Dispatched = {e}
            /\ currentRequestCount' = currentRequestCount + 1
            /\ obs'[e].transportAttempts = obs[e].transportAttempts + 1
            /\ (maxRequestsPerMinute # -1 => currentRequestCount' <= maxRequestsPerMinute)]_vars
    /\ [][\A c \in Callers :
            obs'[c].transportAttempts > obs[c].transportAttempts => c \in Dispatched]_vars
    /\ [][currentRequestCount' < currentRequestCount
            => (currentRequestCount' = 0 /\ Dispatched = {})]_vars

\* The whole window of a client of capacity 2 went to one call: its first
\* attempt and its retry, the other caller having made no call.
C37_Witness ==
    \E c \in Callers : \E d \in Callers \ {c} :
        /\ maxRequestsPerMinute = 2
        /\ currentRequestCount = 2
        /\ calls[c].attempt = 1
        /\ c \in inflight
        /\ obs[c].transportAttempts = 2
        /\ calls[d].pc = "idle"


\* ------------------------------------------------ after disposal (Spec)

\* C38: once dispose() has been called the queue is empty and stays empty:
\* nothing is appended to it, by a new verb call or by a retry.
C38_QueueStaysEmpty ==
    disposed => queue = <<>>

\* C39: an entry not yet settled is either queued or in flight, never both and
\* never twice; a dispatch moves it from the queue to the transport, a
\* settlement removes it for good and resumes the call awaiting it; each call
\* has had at most one dispatch per entry it enqueued; dispose() settles the
\* queued entries only and leaves the entries in flight where they are.
C39_EntryLifecycle ==
    /\ [](/\ Range(queue) \cap inflight = {}
          /\ Range(pending) = Range(queue) \cup inflight
          /\ Len(pending) = Cardinality(Range(pending))
          /\ Len(queue) = Cardinality(Range(queue))
          /\ \A c \in Callers :
                /\ (c \in Range(pending)) <=> (calls[c].pc = "waiting")
                /\ obs[c].transportAttempts <= obs[c].enqueues
                /\ c \in Range(queue) => obs[c].transportAttempts < obs[c].enqueues)
    /\ [][\A e \in Dispatched : e \in Range(queue) /\ e \notin Range(queue')]_vars
    /\ [][\A e \in Settled :
            /\ e \notin Range(queue') \cup inflight'
            /\ calls[e].pc = "waiting"
            /\ calls'[e].pc # "waiting"]_vars
    /\ [][dispose => (Settled = Range(queue) /\ inflight' = inflight)]_vars

\* dispose() rejected the queued entry of a call on its last attempt, which
\* threw the disposed error, while the entry of the other call stays in flight.
C39_Witness ==
    \E c \in Callers : \E d \in Callers \ {c} :
        /\ disposed
        /\ c \in inflight
        /\ pending = <<c>>
        /\ calls[d].pc = "rejected"
        /\ calls[d].thrown = DisposedError
        /\ calls[d].attempt = maxRetries


\* ------------------------------------------ breaker recovery (SpecRecovery)

\* C40: an OPEN breaker eventually admits a call again: when time advances
\* without bound and calls keep querying isOpen(), the breaker leaves OPEN (a
\* query finds the reset timeout elapsed and returns false).
C40_OpenEventuallyAdmits ==
    (circuitBreaker.state = OPEN) ~> (circuitBreaker.state # OPEN)

====
